---- MODULE Spec2Model ----
(***************************************************************************)
(* Asynchronous computation dispatch of Velivolant-middle: the feeder      *)
(* (kafka/feeder.js), the results consumer and router (kafka/consumer.js)  *)
(* and the results ledger table (computation_results).                     *)
(*                                                                         *)
(* Node runs every callback to its next await, so one action is one run    *)
(* of a callback between two suspension points.  The suspension points    *)
(* modelled are the publish of a request (feeder.js:40) and the ledger     *)
(* query of a result (consumer.js:94).  What handleResult does when it     *)
(* resumes (handler call, broadcast) is observed in the state in which      *)
(* eachMessage is about to return; no timer or I/O callback runs in         *)
(* between: the callback of submitAndWait is synchronous, so the await of   *)
(* handler(result) (consumer.js:115) and the returns are microtasks.        *)
(***************************************************************************)
EXTENDS Integers, Sequences, FiniteSets, TLC

\* ------------------------------------------------------------------ bounds
MaxCalls == 2
NumCorr == 2
MaxConns == 2

Calls == 1..MaxCalls
\* request ids are uuidv4(), fresh for every call: call k owns RequestId(k)
RequestIds == [k \in Calls |-> "R" \o ToString(k)]
RequestId(k) == RequestIds[k]
ReqIds == {RequestId(k) : k \in Calls}
\* correlation ids: options.correlationId, or a fresh uuid
CorrIdOf == [i \in 1..NumCorr |-> "C" \o ToString(i)]
CorrId(i) == CorrIdOf[i]
CorrIds == {CorrId(i) : i \in 1..NumCorr}

\* db.transaction calls, in the order they are made, and the most
\* statements the callback of one issues
MaxTx == 2
MaxStmts == 2
Txs == 1..MaxTx

\* publishRequest calls on the producer, in the order they are made
MaxPubs == 2
Pubs == 1..MaxPubs

\* start() calls on the consumer, in the order they are made
MaxStarts == 2
Starts == 1..MaxStarts

\* WebSocket connections, in the order they connect
Conns == 1..MaxConns
\* user ids (the id claim of a token), the keys of the userId index
Users == {"u1", "u2"}
\* event ids, the keys of the eventId index
Events == {"e1"}

\* the listeners of the termination signals, and what they close
MainHandlers == {"gracefulShutdown", "shutdown"}
Handlers == MainHandlers \cup {"producerSigterm", "consumerSigterm"}
Components == {"http", "grpc", "ws", "producer", "consumer", "pool"}
Signals == {"SIGTERM", "SIGINT"}

\* the id registry.getLatestSchemaId resolves with
LatestSchemaId == "schema-1"

NULL == "null"
None == "none"

\* ------------------------------------------------------- result records
StatusValues == {"SUCCESS", "ERROR", "TIMEOUT"}
GoodPayload == "{bac:4}"
BadPayload == "not json"
Payloads == {GoodPayload, BadPayload}
ComputedAt == "1700"
ProcessingTime == "12"

\* the Result Record shape: payload iff SUCCESS, errorMessage only otherwise;
\* request_id and correlation_id echo the request the record answers
ResultsFor(r, c) ==
  [request_id : {r}, correlation_id : {c}, status : {"SUCCESS"},
   result : Payloads, computed_at : {ComputedAt},
   processing_time_ms : {ProcessingTime}, error_message : {NULL}]
  \cup
  [request_id : {r}, correlation_id : {c}, status : {"ERROR"},
   result : {NULL}, computed_at : {ComputedAt},
   processing_time_ms : {ProcessingTime}, error_message : {NULL, "boom"}]

\* JSON.parse of a payload: the parsed value, or a SyntaxError is thrown
Parsable(s) == s = GoodPayload
JSONparse(s) == IF s = GoodPayload THEN "object(bac=4)" ELSE "SyntaxError"
\* new Date(x)
NewDate(x) == "Date(" \o x \o ")"

\* ---------------------------------------------------------------- state
VARIABLES
  pc,               \* per call: position in submitRequest
  kind,             \* per call: "wait" submitAndWait, "plain" submitRequest
  corr,             \* per call: its correlationId
  timer,            \* per call: the timeoutHandle of submitAndWait is armed
  outcome,          \* per call: the promise returned by submitAndWait
  submitErr,        \* per call: what submitRequest threw
  resultHandlers,   \* consumer.resultHandlers: correlationId -> callback owner
  expiry,           \* calls whose 5 minute auto-cleanup timer is pending
  pendingRequests,  \* feeder.pendingRequests: the calls whose request id is a key
  inflight,         \* where eachMessage is: idle, in the await of
                    \* registry.decode on a record that cannot be decoded,
                    \* in the await of db.query (with the result it works
                    \* on), or returning
  ledger,           \* rows of computation_results
  wsAttached,       \* global.wsServer is set
  frames,           \* data handed to wsServer.broadcast by the
                    \* handleResult that is returning
  invoked,          \* handlers called by the handleResult that is returning
  queryResult,      \* how db.query ended for it
  age               \* per call: Date.now() - request.submittedAt of its
                    \* pendingRequests entry, as cleanup compares it to
                    \* maxAge: 0 less, MaxAge equal, MaxAge + 1 more

\* the WebSocket hub (websocket/server.js)
VARIABLES
  readyState,        \* per connection: "none" before it connects, else
                     \* ws.readyState
  userId,            \* per connection: ws.userId
  subscribedEvents,  \* per connection: ws.subscribedEvents
  isAlive,           \* per connection: ws.isAlive
  clients,           \* hub.clients: userId -> set of connections
  eventSubscriptions,\* hub.eventSubscriptions: eventId -> set of connections
  wsSent             \* frames handed to ws.send / ws.ping by the hub
                     \* callback that is running

\* db.transaction (db/postgres.js): a record of the fields
\*   pc        per call: the await it is in
\*   acquired  per call: pool.connect() gave it a client
\*   staged    per call: statements executed in its open transaction
\*   applied   per call: statements of it that have taken effect
\*   err       per call: the error its catch block caught
\*   outcome   per call: what it returned or threw
\*   releases  per call: calls of the release() of its client
VARIABLE tx

\* the producer (kafka/producer.js): a record of the fields
\*   connected      producer.connected
\*   requestSchema  producer.requestSchema
\*   schemaFresh    requestSchema was fetched since the last disconnect
\*   brokerConn     the kafkajs producer is connected to the broker
\*   pubPc          per publishRequest call: the await it is in
\*   pubSchema      per publishRequest call: the id it handed to encode
\*   discPc         the await a disconnect() call is in
VARIABLE producer

\* the life cycle of the consumer (kafka/consumer.js): a record of the
\* fields
\*   running             consumer.running
\*   groupState          the kafkajs consumer: "disconnected", "connected",
\*                       "subscribed", or "consuming" (its loop runs)
\*   startPc             per start() call: the await it is in
\*   discPc              the await a disconnect() call is in
\*   disconnectReturned  a disconnect() call has returned and start() was
\*                       not called since
\*   callbackActive      the loop is in a call of eachMessage
VARIABLE lifecycle

\* shutdown (app.js and the SIGTERM handlers of the kafka modules): a
\* record of the fields
\*   pc          per signal handler: "idle", the await it is in, or "done"
\*   closeCalls  per component: calls of its close / disconnect / end
\*   exitCode    the code process.exit was called with (as a string), or
\*               None
VARIABLE shutdown

hubVars == <<readyState, userId, subscribedEvents, isAlive, clients,
             eventSubscriptions, wsSent>>

dispatchVars == <<pc, kind, corr, timer, outcome, submitErr, resultHandlers,
                  expiry, pendingRequests, inflight, ledger, wsAttached,
                  frames, invoked, queryResult, age>>

\* the state of the components beside the dispatch path and the hub
txVars == <<tx>>

producerVars == <<producer>>

lifecycleVars == <<lifecycle>>

shutdownVars == <<shutdown>>

sideVars == <<txVars, producerVars, lifecycleVars, shutdownVars>>

vars == <<dispatchVars, hubVars, sideVars>>

\* the hub's connections and indices, without the frames being sent
hubState == <<readyState, userId, subscribedEvents, isAlive, clients,
              eventSubscriptions>>

feederVars == <<pc, kind, corr, submitErr, pendingRequests, age>>
promiseVars == <<timer, outcome>>
consumerVars == <<inflight, ledger>>

\* a step that is not the router's resuming from db.query calls no handler
\* and broadcasts nothing
NoOutput == frames' = <<>> /\ invoked' = <<>> /\ queryResult' = None

\* a timer or I/O callback starts only when no callback is running: not
\* between the resumption of handleResult and the return of eachMessage
NoCallbackRunning == inflight.phase # "returning"

\* a callback of the hub starts only when none is running: every handler
\* is synchronous from its first line to its return
HubIdle == wsSent = {}

NoMsg == [phase |-> "idle"]

\* a promise: pending, or settled once with a value or an error
Pending == [state |-> "pending", value |-> NULL]
Resolved(v) == [state |-> "resolved", value |-> v]
Rejected(e) == [state |-> "rejected", value |-> e]
\* resolve()/reject() of a promise that is already settled do nothing
Settle(p, q) == IF p.state = "pending" THEN q ELSE p

TimeoutError == "Computation request timed out"
PublishError == "PublishError"

\* Map.set, Map.delete
MapSet(m, key, v) == [x \in DOMAIN m \cup {key} |-> IF x = key THEN v ELSE m[x]]
MapDelete(m, key) == [x \in DOMAIN m \ {key} |-> m[x]]

\* the state after construction, but for the producer and the consumer
InitRest ==
  /\ pc = [k \in Calls |-> "idle"]
  /\ kind = [k \in Calls |-> "plain"]
  /\ corr = [k \in Calls |-> "C1"]
  /\ timer = [k \in Calls |-> FALSE]
  /\ outcome = [k \in Calls |-> Pending]
  /\ submitErr = [k \in Calls |-> None]
  /\ resultHandlers = <<>>
  /\ expiry = {}
  /\ pendingRequests = {}
  /\ inflight = NoMsg
  /\ ledger = {}
  /\ wsAttached \in BOOLEAN
  /\ frames = <<>>
  /\ invoked = <<>>
  /\ queryResult = None
  /\ age = [k \in Calls |-> 0]
  /\ tx = [pc |-> [t \in Txs |-> "idle"],
           acquired |-> [t \in Txs |-> FALSE],
           staged |-> [t \in Txs |-> 0],
           applied |-> [t \in Txs |-> 0],
           err |-> [t \in Txs |-> None],
           outcome |-> [t \in Txs |-> Pending],
           releases |-> [t \in Txs |-> 0]]
  /\ readyState = [c \in Conns |-> "none"]
  /\ userId = [c \in Conns |-> NULL]
  /\ subscribedEvents = [c \in Conns |-> {}]
  /\ isAlive = [c \in Conns |-> TRUE]
  /\ clients = <<>>
  /\ eventSubscriptions = <<>>
  /\ wsSent = {}
  /\ shutdown = [pc |-> [h \in Handlers |-> "idle"],
                 closeCalls |-> [c \in Components |-> 0],
                 exitCode |-> None]

\* the producer after construction
InitProducer ==
  producer = [connected |-> FALSE,
              requestSchema |-> NULL,
              schemaFresh |-> FALSE,
              brokerConn |-> FALSE,
              pubPc |-> [p \in Pubs |-> "idle"],
              pubSchema |-> [p \in Pubs |-> NULL],
              discPc |-> "idle"]

\* the consumer after construction
InitLifecycle ==
  lifecycle = [running |-> FALSE,
               groupState |-> "disconnected",
               startPc |-> [n \in Starts |-> "idle"],
               discPc |-> "idle",
               disconnectReturned |-> FALSE,
               callbackActive |-> FALSE]

Init == InitRest /\ InitProducer /\ InitLifecycle

\* the producer and the consumer once feeder.init() has resolved
\* (producer.connect() and consumer.start() both did)
InitStarted ==
  /\ InitRest
  /\ producer = [connected |-> TRUE,
                 requestSchema |-> LatestSchemaId,
                 schemaFresh |-> TRUE,
                 brokerConn |-> TRUE,
                 pubPc |-> [p \in Pubs |-> "idle"],
                 pubSchema |-> [p \in Pubs |-> NULL],
                 discPc |-> "idle"]
  /\ lifecycle = [running |-> TRUE,
                  groupState |-> "consuming",
                  startPc |-> [n \in Starts |-> IF n = 1 THEN "done" ELSE "idle"],
                  discPc |-> "idle",
                  disconnectReturned |-> FALSE,
                  callbackActive |-> FALSE]

\* ------------------------------------------------------------- feeder
\* a registerHandler that arms no timer
registerHandlerNoTimer(k) ==
  /\ resultHandlers' = MapSet(resultHandlers, corr[k], k)
  /\ expiry' = expiry

\* consumer.registerHandler(correlationId, handler): the entry replaces any
\* entry of that correlationId, and a 5 minute timer is armed
registerHandler(k) ==
  /\ resultHandlers' = MapSet(resultHandlers, corr[k], k)
  /\ expiry' = expiry \cup {k}

\* options.correlationId || uuidv4(): an id an earlier call used, or the
\* next id no call used yet
UsableCorrIds ==
  LET used == {corr[j] : j \in {i \in Calls : pc[i] # "idle"}}
  IN {CorrId(i) : i \in {n \in 1..NumCorr : n <= Cardinality(used) + 1}}

\* a submitRequest that registers the waiter before it publishes (and, as
\* the code, has nothing in its catch block that removes a waiter)
SubmitStartRegistersFirst(k, kd, c) ==
  /\ NoCallbackRunning
  /\ pc[k] = "idle"
  /\ \A j \in Calls : j < k => pc[j] # "idle"
  /\ c \in UsableCorrIds
  /\ pc' = [pc EXCEPT ![k] = "publishing"]
  /\ kind' = [kind EXCEPT ![k] = kd]
  /\ corr' = [corr EXCEPT ![k] = c]
  /\ timer' = [timer EXCEPT ![k] = (kd = "wait")]
  /\ IF kd = "wait"
       THEN /\ resultHandlers' = MapSet(resultHandlers, c, k)
            /\ expiry' = expiry \cup {k}
       ELSE UNCHANGED <<resultHandlers, expiry>>
  /\ UNCHANGED <<outcome, submitErr, pendingRequests, age,
                 wsAttached, hubVars, sideVars>>
  /\ UNCHANGED consumerVars
  /\ NoOutput

\* submitRequest / submitAndWait up to the await of publishRequest: the ids
\* are drawn, submitAndWait arms its timeout, the publish is issued
SubmitStart(k, kd, c) ==
  /\ NoCallbackRunning
  /\ pc[k] = "idle"
  /\ \A j \in Calls : j < k => pc[j] # "idle"
  /\ c \in UsableCorrIds
  /\ pc' = [pc EXCEPT ![k] = "publishing"]
  /\ kind' = [kind EXCEPT ![k] = kd]
  /\ corr' = [corr EXCEPT ![k] = c]
  /\ timer' = [timer EXCEPT ![k] = (kd = "wait")]
  /\ UNCHANGED <<outcome, submitErr, resultHandlers, expiry, pendingRequests,
                 age, wsAttached, hubVars, sideVars>>
  /\ UNCHANGED consumerVars
  /\ NoOutput

\* publishRequest resolved: the callback is registered, the request is put
\* in pendingRequests and submitRequest returns {requestId, correlationId}
SubmitPublished(k) ==
  /\ NoCallbackRunning
  /\ pc[k] = "publishing"
  /\ IF kind[k] # "plain"
       THEN registerHandler(k)
       ELSE UNCHANGED <<resultHandlers, expiry>>
  /\ pendingRequests' = pendingRequests \cup {k}
  /\ age' = [age EXCEPT ![k] = 0]
  /\ pc' = [pc EXCEPT ![k] = "submitted"]
  /\ UNCHANGED <<kind, corr, timer, outcome, submitErr, wsAttached, hubVars, sideVars>>
  /\ UNCHANGED consumerVars
  /\ NoOutput

\* publishRequest rejected: submitRequest logs and rethrows; submitAndWait
\* clears its timeout and rejects with the error
SubmitPublishFailed(k) ==
  /\ NoCallbackRunning
  /\ pc[k] = "publishing"
  /\ pc' = [pc EXCEPT ![k] = "failed"]
  /\ submitErr' = [submitErr EXCEPT ![k] = PublishError]
  /\ IF kind[k] = "wait"
       THEN /\ timer' = [timer EXCEPT ![k] = FALSE]
            /\ outcome' = [outcome EXCEPT
                              ![k] = Settle(outcome[k], Rejected(PublishError))]
       ELSE UNCHANGED <<timer, outcome>>
  /\ UNCHANGED <<kind, corr, resultHandlers, expiry, pendingRequests,
                 age, wsAttached, hubVars, sideVars>>
  /\ UNCHANGED consumerVars
  /\ NoOutput

\* a timeout of submitAndWait that also drops the entry of the request
TimeoutFiresDropsPending(k) ==
  /\ NoCallbackRunning
  /\ timer[k]
  /\ timer' = [timer EXCEPT ![k] = FALSE]
  /\ outcome' = [outcome EXCEPT
                    ![k] = Settle(outcome[k], Rejected(TimeoutError))]
  /\ pendingRequests' = pendingRequests \ {k}
  /\ UNCHANGED <<pc, kind, corr, submitErr, age>>
  /\ UNCHANGED <<resultHandlers, expiry, wsAttached, hubVars, sideVars>>
  /\ UNCHANGED consumerVars
  /\ NoOutput

\* the setTimeout callback of submitAndWait: reject, nothing else
TimeoutFires(k) ==
  /\ NoCallbackRunning
  /\ timer[k]
  /\ timer' = [timer EXCEPT ![k] = FALSE]
  /\ outcome' = [outcome EXCEPT
                    ![k] = Settle(outcome[k], Rejected(TimeoutError))]
  /\ UNCHANGED <<resultHandlers, expiry, wsAttached, hubVars, sideVars>>
  /\ UNCHANGED feederVars
  /\ UNCHANGED consumerVars
  /\ NoOutput

\* the 5 minute setTimeout callback of registerHandler: delete by key
ExpiryFires(k) ==
  /\ NoCallbackRunning
  /\ k \in expiry
  /\ expiry' = expiry \ {k}
  /\ resultHandlers' = MapDelete(resultHandlers, corr[k])
  /\ UNCHANGED <<wsAttached, hubVars, sideVars>>
  /\ UNCHANGED feederVars
  /\ UNCHANGED promiseVars
  /\ UNCHANGED consumerVars
  /\ NoOutput

\* maxAge of cleanup (10 * 60 * 1000 ms) on the scale of age
MaxAge == 1

\* a cleanup that also deletes the entries whose age is maxAge
CleanupAtMaxAge ==
  /\ NoCallbackRunning
  /\ pendingRequests' =
       {k \in pendingRequests : ~(age[k] >= MaxAge)}
  /\ UNCHANGED <<pc, kind, corr, submitErr, age>>
  /\ UNCHANGED <<resultHandlers, expiry, wsAttached, hubVars, sideVars>>
  /\ UNCHANGED promiseVars
  /\ UNCHANGED consumerVars
  /\ NoOutput

\* the setInterval callback, every 60 s: feeder.cleanup() deletes every
\* entry with now - request.submittedAt > maxAge
Cleanup ==
  /\ NoCallbackRunning
  /\ pendingRequests' =
       {k \in pendingRequests : ~(age[k] > MaxAge)}
  /\ UNCHANGED <<pc, kind, corr, submitErr, age>>
  /\ UNCHANGED <<resultHandlers, expiry, wsAttached, hubVars, sideVars>>
  /\ UNCHANGED promiseVars
  /\ UNCHANGED consumerVars
  /\ NoOutput

\* time passes between two callbacks: the entries of S reach maxAge, or
\* pass it
Tick(S) ==
  /\ NoCallbackRunning
  /\ S # {}
  /\ \A k \in S : pc[k] = "submitted" /\ age[k] <= MaxAge
  /\ age' = [k \in Calls |-> IF k \in S THEN age[k] + 1 ELSE age[k]]
  /\ UNCHANGED <<pc, kind, corr, submitErr, pendingRequests>>
  /\ UNCHANGED <<resultHandlers, expiry, wsAttached, hubVars, sideVars>>
  /\ UNCHANGED promiseVars
  /\ UNCHANGED consumerVars
  /\ NoOutput

\* ------------------------------------------------------------ ledger
\* the INSERT ... ON CONFLICT statement of handleResult names $1 .. $7
NumPlaceholders == 7

\* the values array handed to db.query with the statement
UpsertParams(result) ==
  << result.request_id,
     result.status,
     result.result,
     NewDate(result.computed_at),
     result.processing_time_ms,
     result.error_message >>

\* computation_results: NOT NULL columns and check_status
RowAccepted(row) ==
  /\ row.request_id # NULL
  /\ row.correlation_id # NULL
  /\ row.status \in StatusValues
  /\ row.computed_at # NULL

\* what the database does with the statement and a values array: a bind
\* with another number of values than the statement has placeholders is
\* rejected; else VALUES ($1..$7) is inserted or, on a request_id conflict,
\* the SET list is applied to the existing row
ExecUpsert(rows, params, avail) ==
  IF ~avail \/ Len(params) # NumPlaceholders
  THEN [ok |-> FALSE, rows |-> rows]
  ELSE
    LET ins == [request_id |-> params[1], correlation_id |-> params[2],
                status |-> params[3], result_data |-> params[4],
                computed_at |-> params[5], processing_time_ms |-> params[6],
                error_message |-> params[7]]
        upd(row) == [row EXCEPT !.status = params[2],
                                !.result_data = params[4],
                                !.computed_at = params[5],
                                !.processing_time_ms = params[6],
                                !.error_message = params[7]]
        old == {row \in rows : row.request_id = params[1]}
        new == IF old = {} THEN {ins} ELSE {upd(row) : row \in old}
    IN IF RowAccepted(ins) /\ \A row \in new : RowAccepted(row)
       THEN [ok |-> TRUE, rows |-> (rows \ old) \cup new]
       ELSE [ok |-> FALSE, rows |-> rows]

\* ---------------------------------------------------- consumer, router
\* the callback submitAndWait passes to submitRequest throws when
\* JSON.parse does
HandlerThrows(k, result) ==
  kind[k] = "wait" /\ result.status = "SUCCESS" /\ ~Parsable(result.result)

\* the promise of call k after its callback ran on result
CallbackOutcome(k, result) ==
  IF kind[k] # "wait" THEN outcome[k]
  ELSE IF result.status = "SUCCESS"
       THEN IF Parsable(result.result)
            THEN Settle(outcome[k], Resolved(JSONparse(result.result)))
            ELSE outcome[k]
       ELSE Settle(outcome[k],
                   Rejected(IF result.error_message # NULL
                            THEN result.error_message
                            ELSE "Computation failed"))

\* the data handed to wsServer.broadcast
ResultFrame(result) ==
  [type |-> "computation_result", requestId |-> result.request_id,
   correlationId |-> result.correlation_id, status |-> result.status,
   result |-> result.result]

\* a frame for connection c
Frame(c, t, a) == [to |-> c, type |-> t, arg |-> a]

\* wss.clients: the connections the ws server holds, until their close
WssClients == {c \in Conns : readyState[c] \in {"OPEN", "CLOSING"}}

\* hub.broadcast(data): this.send(ws, data) for each ws of wss.clients, and
\* send drops the frame unless ws.readyState is OPEN
Broadcast(data) ==
  {Frame(c, data.type, data) : c \in {d \in WssClients : readyState[d] = "OPEN"}}

\* eachMessage on a record registry.decode will reject: runs to the await
\* of registry.decode
EachMessagePoison ==
  /\ inflight.phase = "idle"
  /\ inflight' = [phase |-> "decode"]
  /\ NoOutput
  /\ UNCHANGED <<ledger>>
  /\ UNCHANGED <<resultHandlers, expiry, wsAttached, hubVars, sideVars>>
  /\ UNCHANGED feederVars
  /\ UNCHANGED promiseVars

\* an eachMessage whose rejected decode is not caught: the consumer's run
\* loop gets the error and the record is not passed
DecodeRejectsUncaught ==
  /\ inflight.phase = "decode"
  /\ inflight' = [phase |-> "stopped"]
  /\ NoOutput
  /\ UNCHANGED <<ledger>>
  /\ UNCHANGED <<resultHandlers, expiry, wsAttached, hubVars, sideVars>>
  /\ UNCHANGED feederVars
  /\ UNCHANGED promiseVars

\* registry.decode rejected: the catch block of eachMessage logs, and
\* eachMessage is about to return
DecodeRejects ==
  /\ inflight.phase = "decode"
  /\ inflight' = [phase |-> "returning"]
  /\ NoOutput
  /\ UNCHANGED <<ledger>>
  /\ UNCHANGED <<resultHandlers, expiry, wsAttached, hubVars, sideVars>>
  /\ UNCHANGED feederVars
  /\ UNCHANGED promiseVars

\* a handleResult that calls the registered handler before it awaits the
\* ledger query
EachMessageInvokesFirst(result) ==
  /\ inflight.phase = "idle"
  /\ \E k \in Calls : /\ pc[k] # "idle"
                      /\ result \in ResultsFor(RequestId(k), corr[k])
  /\ inflight' = [phase |-> "query", res |-> result]
  /\ frames' = <<>>
  /\ queryResult' = None
  /\ invoked' = IF result.correlation_id \in DOMAIN resultHandlers
                THEN << <<resultHandlers[result.correlation_id],
                          result.request_id>> >>
                ELSE <<>>
  /\ UNCHANGED <<ledger>>
  /\ UNCHANGED <<resultHandlers, expiry, wsAttached, hubVars, sideVars>>
  /\ UNCHANGED feederVars
  /\ UNCHANGED promiseVars

\* eachMessage on a decodable record, the answer to a request that was
\* issued: handleResult runs to the await of db.query
EachMessage(result) ==
  /\ inflight.phase = "idle"
  /\ \E k \in Calls : /\ pc[k] # "idle"
                      /\ result \in ResultsFor(RequestId(k), corr[k])
  /\ inflight' = [phase |-> "query", res |-> result]
  /\ NoOutput
  /\ UNCHANGED <<ledger>>
  /\ UNCHANGED <<resultHandlers, expiry, wsAttached, hubVars, sideVars>>
  /\ UNCHANGED feederVars
  /\ UNCHANGED promiseVars

\* handleResult from the point db.query has ended (ok: it resolved) to the
\* return of eachMessage: a rejected query, or a handler that throws, goes
\* to the catch block
ResumeAfterQuery(ok) ==
  LET result == inflight.res
      c == result.correlation_id
      has == ok /\ c \in DOMAIN resultHandlers
      k == resultHandlers[c]
      threw == has /\ HandlerThrows(k, result)
  IN /\ invoked' = IF has THEN << <<k, result.request_id>> >> ELSE <<>>
     /\ timer' = IF has /\ kind[k] = "wait"
                 THEN [timer EXCEPT ![k] = FALSE]
                 ELSE timer
     /\ outcome' = IF has
                   THEN [outcome EXCEPT ![k] = CallbackOutcome(k, result)]
                   ELSE outcome
     /\ resultHandlers' = IF has /\ ~threw
                          THEN MapDelete(resultHandlers, c)
                          ELSE resultHandlers
     /\ frames' = IF ok /\ ~threw /\ wsAttached
                  THEN <<ResultFrame(result)>>
                  ELSE <<>>
     /\ wsSent' = IF ok /\ ~threw /\ wsAttached
                  THEN Broadcast(ResultFrame(result))
                  ELSE {}
     /\ inflight' = [phase |-> "returning"]
     /\ UNCHANGED <<expiry, wsAttached, hubState, sideVars>>
     /\ UNCHANGED feederVars

\* the database has answered the query (avail: it could be reached) and
\* handleResult resumes
HandleResultResume(avail) ==
  /\ HubIdle
  /\ inflight.phase = "query"
  /\ LET out == ExecUpsert(ledger, UpsertParams(inflight.res), avail)
     IN /\ ledger' = out.rows
        /\ queryResult' = IF ~avail THEN "unreachable"
                          ELSE IF out.ok THEN "resolved" ELSE "rejected"
        /\ ResumeAfterQuery(out.ok)

\* db.query resolves without the database of ExecUpsert deciding it (a db
\* module that is stubbed, as the test suites of the repository stub it)
HandleResultResumeStubbed ==
  /\ HubIdle
  /\ inflight.phase = "query"
  /\ ledger' = ledger
  /\ queryResult' = "resolved"
  /\ ResumeAfterQuery(TRUE)

\* handleResult has returned or thrown into its catch block; eachMessage
\* returns and the consumer is ready for the next record
EachMessageReturns ==
  /\ inflight.phase = "returning"
  /\ inflight' = NoMsg
  /\ NoOutput
  /\ wsSent' = {}
  /\ UNCHANGED <<ledger>>
  /\ UNCHANGED <<resultHandlers, expiry, wsAttached, hubState, sideVars>>
  /\ UNCHANGED feederVars
  /\ UNCHANGED promiseVars

\* ------------------------------------------------------ WebSocket hub
\* hub.send(ws, data): sent only if ws.readyState is OPEN
Send(c, t, a) == IF readyState[c] = "OPEN" THEN {Frame(c, t, a)} ELSE {}

\* tokens a client may present: none, one jwt.verify rejects, and one
\* signed for each user
NoToken == ""
BadToken == "bad"
TokenOf == [u \in Users |-> "jwt-" \o u]
Tokens == {NoToken, BadToken} \cup {TokenOf[u] : u \in Users}

\* jwt.verify(token, secret): the decoded id, or it throws
Decoded ==
  [token \in Tokens |->
     IF \E u \in Users : TokenOf[u] = token
     THEN [ok |-> TRUE, id |-> CHOOSE u \in Users : TokenOf[u] = token]
     ELSE [ok |-> FALSE, id |-> NULL]]
JwtVerify(token) == Decoded[token]

\* the tokens of a failed authenticate: none, or one jwt.verify rejects
FailingTokens == {token \in Tokens : ~JwtVerify(token).ok}

\* if (!map.has(key)) map.set(key, new Set()); map.get(key).add(c)
IndexAdd(m, key, c) ==
  [x \in DOMAIN m \cup {key} |->
     IF x = key
     THEN (IF key \in DOMAIN m THEN m[key] ELSE {}) \cup {c}
     ELSE m[x]]

\* for each key of keys: if (map.has(key)) { map.get(key).delete(c);
\* if (map.get(key).size === 0) map.delete(key) }
IndexRemove(m, keys, c) ==
  [x \in {y \in DOMAIN m : ~(y \in keys /\ m[y] \ {c} = {})} |->
     IF x \in keys THEN m[x] \ {c} ELSE m[x]]

\* the end of a hub callback that has sent frames
HubCallbackReturns ==
  /\ NoCallbackRunning
  /\ wsSent # {}
  /\ wsSent' = {}
  /\ UNCHANGED <<readyState, userId, subscribedEvents, isAlive, clients,
                 eventSubscriptions>>
  /\ UNCHANGED <<dispatchVars, sideVars>>

\* handleConnection: a client connects and is welcomed
HandleConnection(c) ==
  /\ HubIdle
  /\ wsAttached
  /\ readyState[c] = "none"
  /\ \A d \in Conns : d < c => readyState[d] # "none"
  /\ readyState' = [readyState EXCEPT ![c] = "OPEN"]
  /\ isAlive' = [isAlive EXCEPT ![c] = TRUE]
  /\ userId' = [userId EXCEPT ![c] = NULL]
  /\ subscribedEvents' = [subscribedEvents EXCEPT ![c] = {}]
  /\ wsSent' = {Frame(c, "connected", NULL)}
  /\ UNCHANGED <<clients, eventSubscriptions>>
  /\ UNCHANGED <<dispatchVars, sideVars>>

\* a handleAuthenticate that binds the connection before it verifies
HandleAuthenticateBindsFirst(c, token) ==
  /\ HubIdle
  /\ readyState[c] = "OPEN"
  /\ IF token = NoToken
       THEN /\ wsSent' = Send(c, "auth_error", "Token required")
            /\ UNCHANGED <<userId, clients>>
       ELSE /\ userId' = [userId EXCEPT ![c] = JwtVerify(token).id]
            /\ IF JwtVerify(token).ok
                 THEN /\ clients' = IndexAdd(clients, JwtVerify(token).id, c)
                      /\ wsSent' = Send(c, "authenticated",
                                         JwtVerify(token).id)
                 ELSE /\ wsSent' = Send(c, "auth_error", "Invalid token")
                      /\ UNCHANGED clients
  /\ UNCHANGED <<readyState, subscribedEvents, isAlive, eventSubscriptions>>
  /\ UNCHANGED <<dispatchVars, sideVars>>

\* handleAuthenticate: {type: 'authenticate', token}
HandleAuthenticate(c, token) ==
  /\ HubIdle
  /\ readyState[c] = "OPEN"
  /\ IF token = NoToken
       THEN /\ wsSent' = Send(c, "auth_error", "Token required")
            /\ UNCHANGED <<userId, clients>>
       ELSE IF JwtVerify(token).ok
            THEN /\ userId' = [userId EXCEPT ![c] = JwtVerify(token).id]
                 /\ clients' = IndexAdd(clients, JwtVerify(token).id, c)
                 /\ wsSent' = Send(c, "authenticated", JwtVerify(token).id)
            ELSE /\ wsSent' = Send(c, "auth_error", "Invalid token")
                 /\ UNCHANGED <<userId, clients>>
  /\ UNCHANGED <<readyState, subscribedEvents, isAlive, eventSubscriptions>>
  /\ UNCHANGED <<dispatchVars, sideVars>>

\* a handleSubscribeEvent that does not ask for ws.userId
HandleSubscribeEventNoAuth(c, e) ==
  /\ HubIdle
  /\ readyState[c] = "OPEN"
  /\ IF e = NULL
       THEN /\ wsSent' = Send(c, "error", "Event ID required")
            /\ UNCHANGED <<eventSubscriptions, subscribedEvents>>
       ELSE /\ eventSubscriptions' = IndexAdd(eventSubscriptions, e, c)
            /\ subscribedEvents' =
                 [subscribedEvents EXCEPT ![c] = @ \cup {e}]
            /\ wsSent' = Send(c, "subscribed", e)
  /\ UNCHANGED <<readyState, userId, isAlive, clients>>
  /\ UNCHANGED <<dispatchVars, sideVars>>

\* handleSubscribeEvent: {type: 'subscribe_event', eventId}; e = NULL is a
\* message without eventId
HandleSubscribeEvent(c, e) ==
  /\ HubIdle
  /\ readyState[c] = "OPEN"
  /\ IF userId[c] = NULL
       THEN /\ wsSent' = Send(c, "error", "Authentication required")
            /\ UNCHANGED <<eventSubscriptions, subscribedEvents>>
       ELSE IF e = NULL
            THEN /\ wsSent' = Send(c, "error", "Event ID required")
                 /\ UNCHANGED <<eventSubscriptions, subscribedEvents>>
            ELSE /\ eventSubscriptions' = IndexAdd(eventSubscriptions, e, c)
                 /\ subscribedEvents' =
                      [subscribedEvents EXCEPT ![c] = @ \cup {e}]
                 /\ wsSent' = Send(c, "subscribed", e)
  /\ UNCHANGED <<readyState, userId, isAlive, clients>>
  /\ UNCHANGED <<dispatchVars, sideVars>>

\* a handleUnsubscribeEvent that leaves ws.subscribedEvents as it is
HandleUnsubscribeEventKeepsSet(c, e) ==
  /\ HubIdle
  /\ readyState[c] = "OPEN"
  /\ IF e = NULL
       THEN /\ wsSent' = Send(c, "error", "Event ID required")
            /\ UNCHANGED <<eventSubscriptions, subscribedEvents>>
       ELSE /\ eventSubscriptions' = IndexRemove(eventSubscriptions, {e}, c)
            /\ subscribedEvents' = subscribedEvents
            /\ wsSent' = Send(c, "unsubscribed", e)
  /\ UNCHANGED <<readyState, userId, isAlive, clients>>
  /\ UNCHANGED <<dispatchVars, sideVars>>

\* handleUnsubscribeEvent: {type: 'unsubscribe_event', eventId}
HandleUnsubscribeEvent(c, e) ==
  /\ HubIdle
  /\ readyState[c] = "OPEN"
  /\ IF e = NULL
       THEN /\ wsSent' = Send(c, "error", "Event ID required")
            /\ UNCHANGED <<eventSubscriptions, subscribedEvents>>
       ELSE /\ eventSubscriptions' = IndexRemove(eventSubscriptions, {e}, c)
            /\ subscribedEvents' =
                 [subscribedEvents EXCEPT ![c] = @ \ {e}]
            /\ wsSent' = Send(c, "unsubscribed", e)
  /\ UNCHANGED <<readyState, userId, isAlive, clients>>
  /\ UNCHANGED <<dispatchVars, sideVars>>

\* handleMessage on {type: 'ping'}
HandlePing(c) ==
  /\ HubIdle
  /\ readyState[c] = "OPEN"
  /\ wsSent' = Send(c, "pong", NULL)
  /\ UNCHANGED <<readyState, userId, subscribedEvents, isAlive, clients,
                 eventSubscriptions>>
  /\ UNCHANGED <<dispatchVars, sideVars>>

\* the 'close' event of a connection (the peer went away, or the socket
\* was destroyed by terminate): handleDisconnect
HandleDisconnect(c) ==
  /\ HubIdle
  /\ readyState[c] \in {"OPEN", "CLOSING"}
  /\ readyState' = [readyState EXCEPT ![c] = "CLOSED"]
  /\ clients' = IF userId[c] # NULL
                 THEN IndexRemove(clients, {userId[c]}, c)
                 ELSE clients
  /\ eventSubscriptions' =
       IndexRemove(eventSubscriptions, subscribedEvents[c], c)
  /\ wsSent' = {}
  /\ UNCHANGED <<userId, subscribedEvents, isAlive>>
  /\ UNCHANGED <<dispatchVars, sideVars>>

\* the 'pong' event of a connection
Pong(c) ==
  /\ HubIdle
  /\ readyState[c] = "OPEN"
  /\ isAlive' = [isAlive EXCEPT ![c] = TRUE]
  /\ wsSent' = {}
  /\ UNCHANGED <<readyState, userId, subscribedEvents, clients,
                 eventSubscriptions>>
  /\ UNCHANGED <<dispatchVars, sideVars>>

\* a heartbeat that terminates nothing
HeartbeatTickNoReap ==
  /\ HubIdle
  /\ wsAttached
  /\ WssClients # {}
  /\ readyState' = readyState
  /\ isAlive' = [c \in Conns |-> IF c \in WssClients THEN FALSE
                                  ELSE isAlive[c]]
  /\ wsSent' = {Frame(c, "ping-control", NULL) :
                  c \in {d \in WssClients :
                           isAlive[d] /\ readyState[d] = "OPEN"}}
  /\ UNCHANGED <<userId, subscribedEvents, clients, eventSubscriptions>>
  /\ UNCHANGED <<dispatchVars, sideVars>>

\* the setInterval callback of startHeartbeat, every 30 s: a connection
\* that is not alive is terminated, the others are marked and pinged
HeartbeatTick ==
  /\ HubIdle
  /\ wsAttached
  /\ WssClients # {}
  /\ readyState' = [c \in Conns |->
                      IF c \in WssClients /\ ~isAlive[c]
                      THEN "CLOSING" ELSE readyState[c]]
  /\ isAlive' = [c \in Conns |-> IF c \in WssClients THEN FALSE
                                  ELSE isAlive[c]]
  /\ wsSent' = {Frame(c, "ping-control", NULL) :
                  c \in {d \in WssClients :
                           isAlive[d] /\ readyState[d] = "OPEN"}}
  /\ UNCHANGED <<userId, subscribedEvents, clients, eventSubscriptions>>
  /\ UNCHANGED <<dispatchVars, sideVars>>

\* the connections broadcastToUser(u, data) sends data to
DeliveredToUser(u) ==
  IF u \in DOMAIN clients
  THEN {c \in clients[u] : readyState[c] = "OPEN"}
  ELSE {}

\* the connections broadcastToEvent(e, data) sends data to
DeliveredToEvent(e) ==
  IF e \in DOMAIN eventSubscriptions
  THEN {c \in eventSubscriptions[e] : readyState[c] = "OPEN"}
  ELSE {}

BroadcastToUser(u) ==
  /\ HubIdle
  /\ wsAttached
  /\ wsSent' = {Frame(c, "to-user", u) : c \in DeliveredToUser(u)}
  /\ UNCHANGED <<readyState, userId, subscribedEvents, isAlive, clients,
                 eventSubscriptions>>
  /\ UNCHANGED <<dispatchVars, sideVars>>

BroadcastToEvent(e) ==
  /\ HubIdle
  /\ wsAttached
  /\ wsSent' = {Frame(c, "to-event", e) : c \in DeliveredToEvent(e)}
  /\ UNCHANGED <<readyState, userId, subscribedEvents, isAlive, clients,
                 eventSubscriptions>>
  /\ UNCHANGED <<dispatchVars, sideVars>>

\* ------------------------------------------------------ db.transaction
\* the value the callback resolves with
TxValue == "value"

\* the rest of the system, which db.transaction does not touch
txFrame == <<dispatchVars, hubVars, producerVars, lifecycleVars, shutdownVars>>

\* transaction(callback) is called: runs to the await of getClient
TxStart(t) ==
  /\ tx.pc[t] = "idle"
  /\ \A u \in Txs : u < t => tx.pc[u] # "idle"
  /\ tx' = [tx EXCEPT !.pc[t] = "connect"]
  /\ UNCHANGED txFrame

\* pool.connect() has settled: rejected, transaction rejects with that
\* error (it is not in the try block yet); resolved, BEGIN is sent
TxConnected(t, ok) ==
  /\ tx.pc[t] = "connect"
  /\ tx' = IF ok
             THEN [tx EXCEPT !.acquired[t] = TRUE,
                             !.pc[t] = "begin"]
             ELSE [tx EXCEPT !.pc[t] = "done",
                             !.outcome[t] = Rejected("ConnectError")]
  /\ UNCHANGED txFrame

\* the catch block is entered with error e: ROLLBACK is sent
TxCatch(t, e) ==
  [tx EXCEPT !.err[t] = e,
             !.pc[t] = "rollback"]

\* BEGIN has settled: the callback is called and sends its first statement
\* (or has none to send), or the catch block is entered
TxBegun(t, ok) ==
  /\ tx.pc[t] = "begin"
  /\ tx' = IF ok
             THEN [tx EXCEPT !.pc[t] = "callback"]
             ELSE TxCatch(t, "BeginError")
  /\ UNCHANGED txFrame

\* a statement of the callback has settled: executed in the open
\* transaction, or rejected, and the callback rejects with its error
TxStatement(t, ok) ==
  /\ tx.pc[t] = "callback"
  /\ tx.staged[t] < MaxStmts
  /\ tx' = IF ok
             THEN [tx EXCEPT !.staged[t] = @ + 1]
             ELSE TxCatch(t, "StatementError")
  /\ UNCHANGED txFrame

\* the callback throws an error of its own
TxCallbackThrows(t) ==
  /\ tx.pc[t] = "callback"
  /\ tx' = TxCatch(t, "CallbackError")
  /\ UNCHANGED txFrame

\* the callback resolves: COMMIT is sent
TxCallbackReturns(t) ==
  /\ tx.pc[t] = "callback"
  /\ tx' = [tx EXCEPT !.pc[t] = "commit"]
  /\ UNCHANGED txFrame

\* COMMIT has settled: the statements take effect, the value of the
\* callback is returned and the finally block releases the client; or the
\* catch block is entered
TxCommitted(t, ok) ==
  /\ tx.pc[t] = "commit"
  /\ tx' = IF ok
             THEN [tx EXCEPT !.applied[t] = tx.staged[t],
                             !.staged[t] = 0,
                             !.outcome[t] = Resolved(TxValue),
                             !.releases[t] = @ + 1,
                             !.pc[t] = "done"]
             ELSE TxCatch(t, "CommitError")
  /\ UNCHANGED txFrame

\* ROLLBACK has settled: resolved, the caught error is thrown; rejected,
\* the await in the catch block throws the error of ROLLBACK; either way
\* the finally block releases the client, and the statements of the
\* transaction, which was not committed, have no effect
TxRolledBack(t, ok) ==
  /\ tx.pc[t] = "rollback"
  /\ tx' = [tx EXCEPT
              !.staged[t] = 0,
              !.outcome[t] =
                 Rejected(IF ok THEN tx.err[t] ELSE "RollbackError"),
              !.releases[t] = @ + 1,
              !.pc[t] = "done"]
  /\ UNCHANGED txFrame

\* ---------------------------------------------------------- producer
\* the rest of the system, which the producer does not touch
producerFrame == <<dispatchVars, hubVars, txVars, lifecycleVars,
                   shutdownVars>>

\* registry.encode(schema, request) is called by call p, the producer
\* being as prod says
EncodeCalled(prod, p, schema) ==
  [prod EXCEPT !.pubSchema[p] = schema,
               !.pubPc[p] = "encode"]

\* publishRequest(request) is called: connected, it runs to the await of
\* registry.encode(this.requestSchema, request); else connect() is called,
\* which runs to the await of producer.connect()
PublishRequest(p) ==
  /\ producer.pubPc[p] = "idle"
  /\ \A q \in Pubs : q < p => producer.pubPc[q] # "idle"
  /\ producer' = IF producer.connected
                   THEN EncodeCalled(producer, p, producer.requestSchema)
                   ELSE [producer EXCEPT !.pubPc[p] = "connect"]
  /\ UNCHANGED producerFrame

\* producer.connect() of the connect() of call p has settled: resolved,
\* getLatestSchemaId is called; rejected, connect() and publishRequest
\* throw
ProducerConnectSettles(p, ok) ==
  /\ producer.pubPc[p] = "connect"
  /\ producer' = IF ok
                   THEN [producer EXCEPT !.brokerConn = TRUE,
                                         !.pubPc[p] = "fetch"]
                   ELSE [producer EXCEPT !.pubPc[p] = "failed"]
  /\ UNCHANGED producerFrame

\* getLatestSchemaId has settled: resolved, the id is stored, connected is
\* set, connect() returns and publishRequest runs to the await of
\* registry.encode; rejected, connect() and publishRequest throw
SchemaFetchSettles(p, ok) ==
  /\ producer.pubPc[p] = "fetch"
  /\ producer' =
       IF ok
         THEN EncodeCalled([producer EXCEPT !.requestSchema = LatestSchemaId,
                                            !.schemaFresh = TRUE,
                                            !.connected = TRUE],
                           p, LatestSchemaId)
         ELSE [producer EXCEPT !.pubPc[p] = "failed"]
  /\ UNCHANGED producerFrame

\* registry.encode has settled: resolved, producer.send is called;
\* rejected, publishRequest logs and throws
EncodeSettles(p, ok) ==
  /\ producer.pubPc[p] = "encode"
  /\ producer' = [producer EXCEPT
                    !.pubPc[p] = IF ok THEN "send" ELSE "failed"]
  /\ UNCHANGED producerFrame

\* producer.send has settled: it resolves only on a producer that is
\* connected to the broker
SendSettles(p, ok) ==
  /\ producer.pubPc[p] = "send"
  /\ ok => producer.brokerConn
  /\ producer' = [producer EXCEPT
                    !.pubPc[p] = IF ok THEN "done" ELSE "failed"]
  /\ UNCHANGED producerFrame

\* disconnect() is called (by a SIGTERM handler) while connected is set:
\* it runs to the await of producer.disconnect()
ProducerDisconnect ==
  /\ producer.discPc = "idle"
  /\ producer.connected
  /\ producer' = [producer EXCEPT !.discPc = "disconnect"]
  /\ UNCHANGED producerFrame

\* producer.disconnect() has resolved: connected is cleared
ProducerDisconnected ==
  /\ producer.discPc = "disconnect"
  /\ producer' = [producer EXCEPT !.discPc = "idle",
                                  !.brokerConn = FALSE,
                                  !.connected = FALSE,
                                  !.schemaFresh = FALSE]
  /\ UNCHANGED producerFrame

\* ------------------------------------------- life cycle of the consumer
\* the rest of the system, which these steps do not touch
lifecycleFrame == <<dispatchVars, hubVars, txVars, producerVars,
                    shutdownVars>>

\* start() is called: connect() returns at once if running is set and
\* consumer.run is called; else it runs to the await of consumer.connect()
ConsumerStart(n) ==
  /\ lifecycle.startPc[n] = "idle"
  /\ \A m \in Starts : m < n => lifecycle.startPc[m] # "idle"
  /\ lifecycle' =
       [lifecycle EXCEPT
          !.startPc[n] = IF lifecycle.running THEN "run" ELSE "connect",
          !.disconnectReturned = FALSE]
  /\ UNCHANGED lifecycleFrame

\* consumer.connect() has settled: resolved, consumer.subscribe is called;
\* rejected, connect() and start() throw
ConsumerConnectSettles(n, ok) ==
  /\ lifecycle.startPc[n] = "connect"
  /\ lifecycle' =
       IF ok
         THEN [lifecycle EXCEPT
                 !.groupState = IF lifecycle.groupState = "disconnected"
                                THEN "connected" ELSE lifecycle.groupState,
                 !.startPc[n] = "subscribe"]
         ELSE [lifecycle EXCEPT !.startPc[n] = "failed"]
  /\ UNCHANGED lifecycleFrame

\* consumer.subscribe has settled: resolved, running is set, connect()
\* returns and start() calls consumer.run; rejected, they throw
ConsumerSubscribeSettles(n, ok) ==
  /\ lifecycle.startPc[n] = "subscribe"
  /\ lifecycle' =
       IF ok
         THEN [lifecycle EXCEPT
                 !.groupState = IF lifecycle.groupState = "connected"
                                THEN "subscribed" ELSE lifecycle.groupState,
                 !.running = TRUE,
                 !.startPc[n] = "run"]
         ELSE [lifecycle EXCEPT !.startPc[n] = "failed"]
  /\ UNCHANGED lifecycleFrame

\* consumer.run has settled: resolved, the loop of the kafkajs consumer
\* runs (a consumer whose loop runs already keeps that loop and starts no
\* other); rejected, start() throws
ConsumerRunSettles(n, ok) ==
  /\ lifecycle.startPc[n] = "run"
  /\ lifecycle' =
       IF ok
         THEN [lifecycle EXCEPT !.groupState = "consuming",
                                !.startPc[n] = "done"]
         ELSE [lifecycle EXCEPT !.startPc[n] = "failed"]
  /\ UNCHANGED lifecycleFrame

\* the loop calls eachMessage on the next record
ConsumerDelivers ==
  /\ lifecycle.groupState = "consuming"
  /\ ~lifecycle.callbackActive
  /\ lifecycle' = [lifecycle EXCEPT !.callbackActive = TRUE]
  /\ UNCHANGED lifecycleFrame

\* eachMessage returns
ConsumerCallbackReturns ==
  /\ lifecycle.callbackActive
  /\ lifecycle' = [lifecycle EXCEPT !.callbackActive = FALSE]
  /\ UNCHANGED lifecycleFrame

\* disconnect() is called: it returns at once unless running is set, and
\* then runs to the await of consumer.disconnect()
ConsumerDisconnect ==
  /\ lifecycle.discPc = "idle"
  /\ lifecycle' =
       IF lifecycle.running
         THEN [lifecycle EXCEPT !.discPc = "disconnect"]
         ELSE [lifecycle EXCEPT !.disconnectReturned = TRUE]
  /\ UNCHANGED lifecycleFrame

\* consumer.disconnect() has resolved, which the kafkajs consumer does
\* once its loop has stopped and the eachMessage in flight has returned:
\* running is cleared and disconnect() returns
ConsumerDisconnected ==
  /\ lifecycle.discPc = "disconnect"
  /\ ~lifecycle.callbackActive
  /\ lifecycle' = [lifecycle EXCEPT !.groupState = "disconnected",
                                    !.running = FALSE,
                                    !.discPc = "idle",
                                    !.disconnectReturned = TRUE]
  /\ UNCHANGED lifecycleFrame

\* ---------------------------------------------------------- shutdown
\* the rest of the system, which the signal handlers do not touch
shutdownFrame == <<dispatchVars, txVars, userId, subscribedEvents, isAlive,
                   clients, eventSubscriptions, wsSent>>

\* n more calls of the close of component c
Closing(calls, c, n) == [calls EXCEPT ![c] = @ + n]

\* gracefulShutdown / shutdown from the Kafka section on, with conn and run
\* the values of producer.connected and consumer.running: the await the
\* handler stops in (each disconnect() returns at once when its flag is
\* clear; db.close() is called whatever the state of the pool)
NextAwait(conn, run) ==
  IF conn THEN "producer" ELSE IF run THEN "consumer" ELSE "pool"

\* the signal sig arrives: each listener of it runs to its first await.
\* gracefulShutdown (app.js:203-204) and shutdown (app.js:379-380) listen
\* to both signals and each call httpServer.close; the handlers of the
\* kafka modules listen to SIGTERM and call disconnect()
Signal(sig) ==
  /\ shutdown.exitCode = None
  /\ \A h \in Handlers : shutdown.pc[h] = "idle"
  /\ shutdown' =
       [shutdown EXCEPT
          !.pc =
             [h \in Handlers |->
                IF h \in MainHandlers THEN "http"
                ELSE IF sig # "SIGTERM" THEN "done"
                ELSE IF h = "producerSigterm"
                     THEN (IF producer.connected THEN "disconnect" ELSE "done")
                     ELSE (IF lifecycle.running THEN "disconnect" ELSE "done")],
          !.closeCalls =
             [c \in Components |->
                shutdown.closeCalls[c]
                + (IF c = "http" THEN 2
                   ELSE IF /\ sig = "SIGTERM"
                           /\ c = "producer"
                           /\ producer.connected THEN 1
                   ELSE IF /\ sig = "SIGTERM"
                           /\ c = "consumer"
                           /\ lifecycle.running THEN 1
                   ELSE 0)]]
  /\ UNCHANGED <<producer, lifecycle, readyState>>
  /\ UNCHANGED shutdownFrame

\* the disconnect() of the SIGTERM handler of a kafka module resumes: the
\* flag is cleared
ModuleHandlerResumes(h) ==
  /\ shutdown.exitCode = None
  /\ h \in Handlers \ MainHandlers
  /\ shutdown.pc[h] = "disconnect"
  /\ shutdown' = [shutdown EXCEPT !.pc[h] = "done"]
  /\ IF h = "producerSigterm"
       THEN /\ producer' = [producer EXCEPT !.connected = FALSE,
                                            !.brokerConn = FALSE]
            /\ UNCHANGED lifecycle
       ELSE /\ lifecycle' = [lifecycle EXCEPT !.running = FALSE,
                                              !.groupState = "disconnected"]
            /\ UNCHANGED producer
  /\ UNCHANGED readyState
  /\ UNCHANGED shutdownFrame

\* httpServer.close has called back: grpcServer.tryShutdown is called
HttpClosed(h) ==
  /\ shutdown.exitCode = None
  /\ h \in MainHandlers
  /\ shutdown.pc[h] = "http"
  /\ shutdown' = [shutdown EXCEPT
                    !.pc[h] = "grpc",
                    !.closeCalls = Closing(shutdown.closeCalls, "grpc", 1)]
  /\ UNCHANGED <<producer, lifecycle, readyState>>
  /\ UNCHANGED shutdownFrame

\* tryShutdown has called back: wsServer.shutdown() if global.wsServer is
\* set (every connection is closed), then the first disconnect() or
\* db.close() that has to be awaited is called
GrpcClosed(h) ==
  /\ shutdown.exitCode = None
  /\ h \in MainHandlers
  /\ shutdown.pc[h] = "grpc"
  /\ readyState' = IF wsAttached
                    THEN [c \in Conns |-> IF readyState[c] = "OPEN"
                                          THEN "CLOSING" ELSE readyState[c]]
                    ELSE readyState
  /\ shutdown' =
       [shutdown EXCEPT
          !.pc[h] = NextAwait(producer.connected, lifecycle.running),
          !.closeCalls =
             Closing(Closing(shutdown.closeCalls, "ws",
                             IF wsAttached THEN 1 ELSE 0),
                     NextAwait(producer.connected, lifecycle.running), 1)]
  /\ UNCHANGED <<producer, lifecycle>>
  /\ UNCHANGED shutdownFrame

\* the producer.disconnect() awaited in kafkaProducer.disconnect() has
\* resolved: connected is cleared, then consumer.disconnect() or db.close()
ProducerClosed(h) ==
  /\ shutdown.exitCode = None
  /\ h \in MainHandlers
  /\ shutdown.pc[h] = "producer"
  /\ producer' = [producer EXCEPT !.connected = FALSE,
                                  !.brokerConn = FALSE]
  /\ shutdown' =
       [shutdown EXCEPT
          !.pc[h] = NextAwait(FALSE, lifecycle.running),
          !.closeCalls = Closing(shutdown.closeCalls,
                                 NextAwait(FALSE, lifecycle.running), 1)]
  /\ UNCHANGED <<lifecycle, readyState>>
  /\ UNCHANGED shutdownFrame

\* the consumer.disconnect() awaited in resultsConsumer.disconnect() has
\* resolved: running is cleared, then db.close() is called
ConsumerClosed(h) ==
  /\ shutdown.exitCode = None
  /\ h \in MainHandlers
  /\ shutdown.pc[h] = "consumer"
  /\ lifecycle' = [lifecycle EXCEPT !.running = FALSE,
                                    !.groupState = "disconnected"]
  /\ shutdown' = [shutdown EXCEPT
                    !.pc[h] = "pool",
                    !.closeCalls = Closing(shutdown.closeCalls, "pool", 1)]
  /\ UNCHANGED <<producer, readyState>>
  /\ UNCHANGED shutdownFrame

\* pool.end() has resolved: process.exit(0)
PoolClosed(h) ==
  /\ shutdown.exitCode = None
  /\ h \in MainHandlers
  /\ shutdown.pc[h] = "pool"
  /\ shutdown' = [shutdown EXCEPT !.exitCode = "0",
                                  !.pc[h] = "done"]
  /\ UNCHANGED <<producer, lifecycle, readyState>>
  /\ UNCHANGED shutdownFrame

\* ------------------------------------------------------- specification
Kinds == {"wait", "plain"}
Results == UNION {ResultsFor(r, c) : r \in ReqIds, c \in CorrIds}

Next ==
  \/ \E k \in Calls, kd \in Kinds, c \in CorrIds : SubmitStart(k, kd, c)
  \/ \E k \in Calls : SubmitPublished(k)
  \/ \E k \in Calls : SubmitPublishFailed(k)
  \/ \E k \in Calls : TimeoutFires(k)
  \/ \E k \in Calls : ExpiryFires(k)
  \/ EachMessagePoison
  \/ DecodeRejects
  \/ \E k \in Calls :
       /\ pc[k] # "idle"
       /\ \E result \in ResultsFor(RequestId(k), corr[k]) : EachMessage(result)
  \/ \E avail \in BOOLEAN : HandleResultResume(avail)
  \/ EachMessageReturns

Spec == Init /\ [][Next]_vars

\* the router with a db module whose query may also resolve, whatever the
\* statement: every behaviour of Spec is one of SpecAnyDb
SpecAnyDb == Init /\ [][Next \/ HandleResultResumeStubbed]_vars

\* the hub: client messages, close and pong events, the heartbeat and
\* the two selective broadcasts
NextWs ==
  \/ \E c \in Conns : HandleConnection(c)
  \/ \E c \in Conns, token \in Tokens : HandleAuthenticate(c, token)
  \/ \E c \in Conns, e \in Events \cup {NULL} : HandleSubscribeEvent(c, e)
  \/ \E c \in Conns, e \in Events \cup {NULL} : HandleUnsubscribeEvent(c, e)
  \/ \E c \in Conns : HandlePing(c)
  \/ \E c \in Conns : HandleDisconnect(c)
  \/ \E c \in Conns : Pong(c)
  \/ HeartbeatTick
  \/ \E u \in Users : BroadcastToUser(u)
  \/ \E e \in Events : BroadcastToEvent(e)
  \/ HubCallbackReturns

SpecWs == Init /\ [][NextWs]_vars

\* the dispatch path with the passing of time and the periodic cleanup of
\* the pending table; the calls pass the same options.correlationId
NextPending ==
  \/ \E k \in Calls, kd \in Kinds : SubmitStart(k, kd, CorrId(1))
  \/ \E k \in Calls : SubmitPublished(k)
  \/ \E k \in Calls : SubmitPublishFailed(k)
  \/ \E k \in Calls : TimeoutFires(k)
  \/ \E k \in Calls : ExpiryFires(k)
  \/ \E k \in Calls :
       /\ pc[k] # "idle"
       /\ \E result \in ResultsFor(RequestId(k), corr[k]) : EachMessage(result)
  \/ \E avail \in BOOLEAN : HandleResultResume(avail)
  \/ EachMessageReturns
  \/ \E S \in SUBSET Calls : Tick(S)
  \/ Cleanup

SpecPending == Init /\ [][NextPending]_vars

\* db.transaction calls, each statement of which the database may reject
NextDb ==
  \/ \E t \in Txs : TxStart(t)
  \/ \E t \in Txs, ok \in BOOLEAN : TxConnected(t, ok)
  \/ \E t \in Txs, ok \in BOOLEAN : TxBegun(t, ok)
  \/ \E t \in Txs, ok \in BOOLEAN : TxStatement(t, ok)
  \/ \E t \in Txs : TxCallbackThrows(t)
  \/ \E t \in Txs : TxCallbackReturns(t)
  \/ \E t \in Txs, ok \in BOOLEAN : TxCommitted(t, ok)
  \/ \E t \in Txs, ok \in BOOLEAN : TxRolledBack(t, ok)

SpecDb == Init /\ [][NextDb]_vars

\* the producer: publishRequest calls and disconnect() calls, each running
\* from one await to the next
NextProducer ==
  \/ \E p \in Pubs : PublishRequest(p)
  \/ \E p \in Pubs, ok \in BOOLEAN : ProducerConnectSettles(p, ok)
  \/ \E p \in Pubs, ok \in BOOLEAN : SchemaFetchSettles(p, ok)
  \/ \E p \in Pubs, ok \in BOOLEAN : EncodeSettles(p, ok)
  \/ \E p \in Pubs, ok \in BOOLEAN : SendSettles(p, ok)
  \/ ProducerDisconnect
  \/ ProducerDisconnected

SpecProducer == Init /\ [][NextProducer]_vars

\* the consumer: start() and disconnect() calls, each running from one
\* await to the next, and the loop of the kafkajs consumer
NextLifecycle ==
  \/ \E n \in Starts : ConsumerStart(n)
  \/ \E n \in Starts, ok \in BOOLEAN : ConsumerConnectSettles(n, ok)
  \/ \E n \in Starts, ok \in BOOLEAN : ConsumerSubscribeSettles(n, ok)
  \/ \E n \in Starts, ok \in BOOLEAN : ConsumerRunSettles(n, ok)
  \/ ConsumerDelivers
  \/ ConsumerCallbackReturns
  \/ ConsumerDisconnect
  \/ ConsumerDisconnected

SpecLifecycle == Init /\ [][NextLifecycle]_vars

\* a termination signal in a process that was started directly, with
\* Kafka enabled and initialised, every close of which succeeds
NextShutdown ==
  \/ \E sig \in Signals : Signal(sig)
  \/ \E h \in Handlers : ModuleHandlerResumes(h)
  \/ \E h \in Handlers : HttpClosed(h)
  \/ \E h \in Handlers : GrpcClosed(h)
  \/ \E h \in Handlers : ProducerClosed(h)
  \/ \E h \in Handlers : ConsumerClosed(h)
  \/ \E h \in Handlers : PoolClosed(h)

SpecShutdown == InitStarted /\ [][NextShutdown]_vars

\* the router and the hub together: requests are submitted, results
\* arrive, connections open and close
NextFanOut ==
  \/ \E k \in Calls, c \in CorrIds : SubmitStart(k, "plain", c)
  \/ \E k \in Calls : SubmitPublished(k)
  \/ \E k \in Calls :
       /\ pc[k] # "idle"
       /\ \E result \in ResultsFor(RequestId(k), corr[k]) : EachMessage(result)
  \/ \E avail \in BOOLEAN : HandleResultResume(avail)
  \/ EachMessageReturns
  \/ \E c \in Conns : HandleConnection(c)
  \/ \E c \in Conns : HandleDisconnect(c)
  \/ HubCallbackReturns

SpecFanOut == Init /\ [][NextFanOut]_vars

\* the event loop runs the callback of a timer that is due once the
\* callback that is running has returned, and eachMessage returns
SpecFair ==
  /\ Spec
  /\ \A k \in Calls : SF_vars(ExpiryFires(k))
  /\ WF_vars(EachMessageReturns)

TypeOK ==
  /\ pc \in [Calls -> {"idle", "publishing", "submitted", "failed"}]
  /\ kind \in [Calls -> Kinds]
  /\ corr \in [Calls -> CorrIds]
  /\ timer \in [Calls -> BOOLEAN]
  /\ \A k \in Calls : outcome[k].state \in {"pending", "resolved", "rejected"}
  /\ DOMAIN resultHandlers \subseteq CorrIds
  /\ \A c \in DOMAIN resultHandlers : resultHandlers[c] \in Calls
  /\ expiry \subseteq Calls
  /\ inflight.phase \in {"idle", "decode", "query", "returning"}
  /\ pendingRequests \subseteq Calls
  /\ Len(frames) <= 1 /\ Len(invoked) <= 1
  /\ queryResult \in {None, "resolved", "rejected", "unreachable"}
  /\ age \in [Calls -> 0..(MaxAge + 1)]

\* ---------------------------------------------------------- properties
\* call k is a submitAndWait whose publish was issued and did not fail
Issued(k) == kind[k] = "wait" /\ pc[k] \in {"publishing", "submitted"}

\* call k owns an entry of the waiter table
HasWaiter(k) ==
  corr[k] \in DOMAIN resultHandlers /\ resultHandlers[corr[k]] = k

\* this step fires or clears a timeout of submitAndWait
TimerStops == \E k \in Calls : (timer[k] /\ ~timer'[k])
\* this step fires an expiry timer of registerHandler
ExpiryStops == \E k \in expiry : k \notin expiry'

\* this step is a cleanup that removes an entry: the only step that changes
\* the pending table and nothing else
CleanupStep ==
  /\ age' = age
  /\ pc' = pc
  /\ inflight' = inflight
  /\ resultHandlers' = resultHandlers
  /\ expiry' = expiry
  /\ timer' = timer
  /\ pendingRequests' # pendingRequests

\* this step is handleResult running from db.query to its end on a result
RouterFinishes == inflight.phase = "query" /\ inflight'.phase = "returning"
\* ... with the database reachable
RouterFinishesDbUp == RouterFinishes /\ queryResult' # "unreachable"

RowsOf(rows, r) == {row \in rows : row.request_id = r}

\* C1: a SUCCESS result with a decodable payload that the router finishes
\* processing while the submitAndWait call of its correlationId is still
\* pending makes the call return the decoded payload.
C1_RoundTrip ==
  [][\A k \in Calls :
       ( /\ RouterFinishes
         /\ Issued(k)
         /\ outcome[k].state = "pending"
         /\ inflight.res.correlation_id = corr[k]
         /\ inflight.res.status = "SUCCESS"
         /\ Parsable(inflight.res.result) )
       => outcome'[k] = Resolved(JSONparse(inflight.res.result))]_vars

\* C2: while the publish of a call that has a callback is outstanding, the
\* waiter of the call is already in the waiter table.
C2_RegisteredBeforePublish ==
  \A k \in Calls : (kind[k] = "wait" /\ pc[k] = "publishing") => HasWaiter(k)

\* C3: a waiter is invoked and a computation_result frame is broadcast
\* only by the step in which the ledger upsert of the result in flight has
\* completed or reported failure, and for that result; no other step
\* settles a call with a result.
C3_LedgerFirst ==
  [][ /\ (invoked' # <<>> =>
            /\ inflight.phase = "query"
            /\ queryResult' # None
            /\ \E k \in Calls :
                 invoked' = << <<k, inflight.res.request_id>> >>)
      /\ (frames' # <<>> =>
            /\ inflight.phase = "query"
            /\ queryResult' # None
            /\ frames' = <<ResultFrame(inflight.res)>>)
      /\ (queryResult' = None =>
            \A k \in Calls :
              outcome'[k] # outcome[k] =>
                outcome'[k] \in {Rejected(TimeoutError),
                                 Rejected(PublishError)}) ]_vars

\* C3 witness: the router has invoked a waiter and broadcast a frame for
\* a result.
C3_Witness ==
  /\ inflight.phase = "returning"
  /\ invoked # <<>>
  /\ frames # <<>>

\* C4: when the ledger write of a result fails, the waiter registered for
\* its correlationId is still invoked and removed, and the broadcast is
\* still attempted.
C4_WaiterDespiteLedgerFailure ==
  [][( /\ RouterFinishes
       /\ queryResult' \in {"rejected", "unreachable"}
       /\ inflight.res.correlation_id \in DOMAIN resultHandlers )
     => /\ invoked' # <<>>
        /\ inflight.res.correlation_id \notin DOMAIN resultHandlers'
        /\ (wsAttached => frames' # <<>>)]_vars

\* C5: when handleResult has finished on a result, so that eachMessage
\* returns and the offset is acknowledged, the ledger holds a row for the
\* result's requestId.
C5_AckedIsPersisted ==
  [][RouterFinishes => RowsOf(ledger', inflight.res.request_id) # {}]_vars

\* C6: after a result is processed with the database reachable, the ledger
\* holds one row for its requestId, and the row's status, payload,
\* computed-at, processing time and error message are that result's.
C6_LastResultWins ==
  [][RouterFinishesDbUp
     => /\ Cardinality(RowsOf(ledger', inflight.res.request_id)) = 1
        /\ \A row \in RowsOf(ledger', inflight.res.request_id) :
              /\ row.status = inflight.res.status
              /\ row.result_data = inflight.res.result
              /\ row.computed_at = NewDate(inflight.res.computed_at)
              /\ row.processing_time_ms = inflight.res.processing_time_ms
              /\ row.error_message = inflight.res.error_message]_vars

\* C7: the upsert of a result, with the database reachable, stores every
\* field in its own column: the row of the requestId has the result's
\* request_id, correlation_id, status, payload, computed-at, processing
\* time and error message.
C7_ColumnsAligned ==
  [][(RouterFinishes /\ queryResult' \in {"resolved", "rejected"})
     => [request_id |-> inflight.res.request_id,
         correlation_id |-> inflight.res.correlation_id,
         status |-> inflight.res.status,
         result_data |-> inflight.res.result,
         computed_at |-> NewDate(inflight.res.computed_at),
         processing_time_ms |-> inflight.res.processing_time_ms,
         error_message |-> inflight.res.error_message] \in ledger']_vars

\* C8: once a submitAndWait call has failed with the timeout error, the
\* waiter table holds no entry created by that call.
C8_TimeoutRemovesWaiter ==
  \A k \in Calls : outcome[k] = Rejected(TimeoutError) => ~HasWaiter(k)

\* C9: a result processed, with the database reachable, after the
\* submitAndWait call of its request has timed out is written to the
\* ledger under its requestId, and the call stays failed with the timeout.
C9_LateResultPersisted ==
  [][\A k \in Calls :
       ( /\ RouterFinishesDbUp
         /\ inflight.res.request_id = RequestId(k)
         /\ outcome[k] = Rejected(TimeoutError) )
       => /\ RowsOf(ledger', RequestId(k)) # {}
          /\ outcome'[k] = Rejected(TimeoutError)]_vars

\* C10: after the publish of a call failed, submitRequest has thrown the
\* publish error, the call owns no waiter and no expiry timer, its request
\* is not in the pending table, and a submitAndWait promise is rejected
\* (with the publish error unless its timeout had fired before).
C10_PublishFailureLeavesNothing ==
  \A k \in Calls :
    pc[k] = "failed" =>
      /\ submitErr[k] = PublishError
      /\ ~HasWaiter(k)
      /\ k \notin expiry
      /\ k \notin pendingRequests
      /\ (kind[k] = "wait" =>
            /\ ~timer[k]
            /\ outcome[k] \in {Rejected(PublishError), Rejected(TimeoutError)})

\* C10 witness: the publish of a submitAndWait call failed while another
\* call is submitted and pending.
C10_Witness ==
  \E k, j \in Calls :
    /\ pc[k] = "failed" /\ kind[k] = "wait"
    /\ outcome[k] = Rejected(PublishError)
    /\ pc[j] = "submitted" /\ j \in pendingRequests

\* C11: a registration never replaces the live waiter of a correlationId:
\* an entry of the waiter table stays the same waiter until it is removed.
C11_OneWaiterPerCorrelationId ==
  [][\A c \in DOMAIN resultHandlers :
       c \in DOMAIN resultHandlers' =>
         resultHandlers'[c] = resultHandlers[c]]_vars

\* the submit calls with a callback made so far
CallbackCalls == {k \in Calls : kind[k] = "wait" /\ pc[k] # "idle"}

\* C12: the waiter table never has more entries than submit calls with a
\* callback were made, every entry has the 5 minute timer of its own
\* registration still pending (so it is gone when that timer fires), and
\* the table is eventually empty for good.
C12_LeakBound ==
  /\ [](Cardinality(DOMAIN resultHandlers) <= Cardinality(CallbackCalls))
  /\ [](\A c \in DOMAIN resultHandlers : resultHandlers[c] \in expiry)
  /\ <>[](DOMAIN resultHandlers = {})

\* C12 witness: every call was a submit with a callback that registered
\* its waiter, no call got a result, and the table is empty again.
C12_Witness ==
  /\ \A k \in Calls : /\ kind[k] = "wait"
                       /\ pc[k] = "submitted"
                       /\ outcome[k].state # "resolved"
                       /\ k \notin expiry
  /\ DOMAIN resultHandlers = {}

\* the settlement the callback of submitAndWait is to make for a result
ExpectedSettlement(result) ==
  IF result.status = "SUCCESS"
  THEN Resolved(JSONparse(result.result))
  ELSE Rejected(IF result.error_message = NULL
                THEN "Computation failed"
                ELSE result.error_message)

\* C13: when the router has processed, with the database reachable, a
\* result whose correlationId has a waiter, that waiter was invoked once
\* with the result, its entry is gone from the table, and a pending
\* submitAndWait call is settled by the result.
C13_InvokedOnceAndRemoved ==
  [][\A c \in DOMAIN resultHandlers :
       (RouterFinishesDbUp /\ inflight.res.correlation_id = c)
       => LET k == resultHandlers[c]
              res == inflight.res
          IN /\ invoked' = << <<k, res.request_id>> >>
             /\ c \notin DOMAIN resultHandlers'
             /\ (kind[k] = "wait" /\ outcome[k].state = "pending"
                  /\ (res.status = "SUCCESS" => Parsable(res.result)))
                 => outcome'[k] = ExpectedSettlement(res)]_vars

\* C14: when the callback registered for a result throws, the frame of the
\* result is still broadcast and the entry of the waiter is still removed.
C14_ThrowingWaiterIsolated ==
  [][\A c \in DOMAIN resultHandlers :
       ( /\ RouterFinishes
         /\ queryResult' = "resolved"
         /\ inflight.res.correlation_id = c
         /\ HandlerThrows(resultHandlers[c], inflight.res) )
       => /\ (wsAttached => frames' = <<ResultFrame(inflight.res)>>)
          /\ c \notin DOMAIN resultHandlers']_vars

\* C15: a record that cannot be decoded is passed (its eachMessage comes to
\* its return, after which the consumer takes the next record) with the
\* ledger and the waiter table as they were, no handler invoked and
\* nothing broadcast; and an eachMessage that is returning returns.
C15_PoisonQuarantine ==
  [][/\ (inflight.phase = "returning" => inflight' = NoMsg)
     /\ (inflight.phase = "decode" /\ inflight'.phase # "decode")
        => /\ inflight'.phase = "returning"
           /\ ledger' = ledger
           /\ resultHandlers' = resultHandlers
           /\ expiry' = expiry
           /\ invoked' = <<>>
           /\ frames' = <<>>]_vars

\* C15 witness: eachMessage is returning from a record that could not be
\* decoded (no query was made for it) while a waiter is registered.
C15_Witness ==
  /\ inflight.phase = "returning"
  /\ queryResult = None
  /\ DOMAIN resultHandlers # {}

\* the open connections bound to user u
BoundTo(u) == {c \in Conns : readyState[c] = "OPEN" /\ userId[c] = u}

\* the open connections subscribed to event e
SubscribedTo(e) ==
  {c \in Conns : readyState[c] = "OPEN" /\ e \in subscribedEvents[c]}

\* connection c is in some set of the userId index, of the eventId index
InUserIndex(c) == \E u \in DOMAIN clients : c \in clients[u]
InEventIndex(c) ==
  \E e \in DOMAIN eventSubscriptions : c \in eventSubscriptions[e]

\* C16: broadcastToUser(u, m) sends m to exactly the open connections
\* that are bound to u.
C16_UserFanOutExact ==
  \A u \in Users : DeliveredToUser(u) = BoundTo(u)

\* C17: broadcastToEvent(e, m) sends m to exactly the open connections
\* whose subscribedEvents has e, and a connection that has not closed is
\* in the eventId index under e exactly if e is in its subscribedEvents.
C17_EventFanOutExact ==
  /\ \A e \in Events : DeliveredToEvent(e) = SubscribedTo(e)
  /\ \A c \in Conns, e \in Events :
       readyState[c] # "CLOSED" =>
         ((e \in DOMAIN eventSubscriptions /\ c \in eventSubscriptions[e])
            <=> e \in subscribedEvents[c])

\* C17 witness: broadcastToEvent has sent to one connection and not to
\* another open, authenticated connection that is not subscribed.
C17_Witness ==
  \E c, d \in Conns, e \in Events :
    /\ wsSent = {Frame(c, "to-event", e)}
    /\ c # d
    /\ readyState[d] = "OPEN"
    /\ userId[d] # NULL
    /\ e \notin subscribedEvents[d]

\* C18: a connection that has closed is in no set of the userId index and
\* in no set of the eventId index, and no key of either index has an
\* empty set.
C18_DisconnectCleansIndices ==
  /\ \A c \in Conns :
       readyState[c] = "CLOSED" => ~InUserIndex(c) /\ ~InEventIndex(c)
  /\ \A u \in DOMAIN clients : clients[u] # {}
  /\ \A e \in DOMAIN eventSubscriptions : eventSubscriptions[e] # {}

\* this step is a heartbeat tick that marked or terminated a connection
HeartbeatStep ==
  \E c \in Conns :
    \/ (isAlive[c] /\ ~isAlive'[c])
    \/ (readyState[c] = "OPEN" /\ readyState'[c] = "CLOSING")

\* C19: the heartbeat terminates an open connection only if it is marked
\* not alive; a tick terminates every open connection that is marked not
\* alive; and when the close of a terminated connection has been handled,
\* the connection is in no set of either index.
C19_LivenessReaping ==
  [][\A c \in Conns :
       /\ (readyState[c] = "OPEN" /\ readyState'[c] = "CLOSING")
            => ~isAlive[c]
       /\ (HeartbeatStep /\ readyState[c] = "OPEN" /\ ~isAlive[c])
            => readyState'[c] = "CLOSING"
       /\ (readyState[c] = "CLOSING" /\ readyState'[c] = "CLOSED")
            => ~InUserIndex(c)' /\ ~InEventIndex(c)']_vars

\* C20: an authenticate without a token, or with one jwt.verify rejects,
\* sends auth_error to the connection; and a step that sends auth_error
\* leaves the bound userId of every connection, both indices, the
\* subscriptions and the transport states as they were.
C20_FailedAuthChangesNothing ==
  [][/\ \A c \in Conns, token \in FailingTokens :
          HandleAuthenticate(c, token)
          => \E f \in wsSent' : f.to = c /\ f.type = "auth_error"
     /\ (\E f \in wsSent' : f.type = "auth_error")
        => /\ userId' = userId
           /\ clients' = clients
           /\ subscribedEvents' = subscribedEvents
           /\ eventSubscriptions' = eventSubscriptions
           /\ readyState' = readyState]_vars

\* C20 witness: auth_error was sent to a connection that is bound to a
\* user and subscribed to an event, and it still is both.
C20_Witness ==
  \E c \in Conns :
    /\ Frame(c, "auth_error", "Invalid token") \in wsSent
    /\ userId[c] # NULL
    /\ userId[c] \in DOMAIN clients /\ c \in clients[userId[c]]
    /\ subscribedEvents[c] # {}


\* C21: subscribe_event takes effect only on an authenticated connection:
\* every connection in the eventId index has a bound userId, and a
\* subscribe_event from a connection without userId changes neither index
\* nor the subscribedEvents of any connection
C21_SubscribeNeedsAuth ==
  /\ [](\A e \in DOMAIN eventSubscriptions :
          \A c \in eventSubscriptions[e] : userId[c] # NULL)
  /\ [][\A c \in Conns :
          (userId[c] = NULL /\ \E e \in Events \cup {NULL} :
                                 HandleSubscribeEvent(c, e))
          => UNCHANGED <<clients, eventSubscriptions, subscribedEvents>>]_vars

\* an unauthenticated connection was refused while another connection is
\* subscribed
C21_Witness ==
  \E c \in Conns :
    /\ userId[c] = NULL
    /\ Frame(c, "error", "Authentication required") \in wsSent
    /\ \E e \in DOMAIN eventSubscriptions : eventSubscriptions[e] # {}


\* C22: for each result the router processes with the database reachable
\* and a hub attached, every connection that is open gets one
\* computation_result frame with the result's requestId, correlationId,
\* status and payload, and no other connection gets a frame
C22_ResultBroadcastToAllOpen ==
  [][(RouterFinishesDbUp /\ wsAttached)
     => wsSent' = {Frame(c, "computation_result", ResultFrame(inflight.res)) :
                     c \in {d \in Conns : readyState[d] = "OPEN"}}]_vars

\* C23: a submit that succeeds adds the entry of its own request id and no
\* other to the pending table, and a cleanup removes the entries submitted
\* more than 10 minutes earlier and no other
C23_PendingAddAndCleanup ==
  [][/\ \A k \in Calls :
          (pc[k] = "publishing" /\ pc'[k] = "submitted")
          => /\ k \notin pendingRequests
             /\ pendingRequests' = pendingRequests \cup {k}
             /\ age'[k] = 0
     /\ CleanupStep
          => /\ pendingRequests' =
                  {k \in pendingRequests : age[k] <= MaxAge}
             /\ \A k \in pendingRequests' : age'[k] = age[k]]_vars

\* an entry older than 10 minutes was removed and one that is 10 minutes
\* old was kept
C23_Witness ==
  /\ \E k \in Calls : /\ pc[k] = "submitted"
                       /\ k \notin pendingRequests
                       /\ age[k] > MaxAge
  /\ \E k \in pendingRequests : age[k] = MaxAge


\* C24: a db.transaction call that has ended either returned the value of
\* its callback with all its statements in effect, or threw the error its
\* catch block caught with none of them in effect; and the client it
\* acquired was released once
C24_TransactionAllOrNothing ==
  \A t \in Txs :
    tx.pc[t] = "done" =>
      /\ tx.releases[t] = (IF tx.acquired[t] THEN 1 ELSE 0)
      /\ tx.outcome[t].state = "resolved"
           => tx.outcome[t].value = TxValue /\ tx.err[t] = None
      /\ tx.outcome[t].state = "rejected"
           => /\ tx.applied[t] = 0
              /\ tx.err[t] # None => tx.outcome[t].value = tx.err[t]


\* C28: only the periodic cleanup removes an entry of the pending table:
\* the arrival of a result, the timeout of submitAndWait and the expiry of
\* a waiter leave the table as it is, so every request published within
\* the last 10 minutes is counted by getPendingCount
C28_OnlyCleanupRemoves ==
  /\ [][(\E k \in pendingRequests : k \notin pendingRequests') => CleanupStep]_vars
  /\ [][(RouterFinishes \/ TimerStops \/ ExpiryStops)
          => pendingRequests' = pendingRequests]_vars
  /\ [](\A k \in Calls :
          (pc[k] = "submitted" /\ age[k] <= MaxAge) => k \in pendingRequests)

\* a request timed out and its waiter expired, and its entry is still in
\* the pending table, while the cleanup has removed an older one
C28_Witness ==
  /\ \E k \in pendingRequests :
       /\ outcome[k] = Rejected(TimeoutError)
       /\ k \notin expiry
  /\ \E j \in Calls : pc[j] = "submitted" /\ j \notin pendingRequests


\* C27: a waiter is removed from the waiter table only by the arrival of
\* its result or by the expiry timer its own registration armed, never by
\* the timer of an earlier registration for the same correlationId
C27_OnlyOwnTimerExpiresWaiter ==
  [][\A k \in Calls :
       (/\ HasWaiter(k)
        /\ corr[k] \notin DOMAIN resultHandlers'
        /\ ~RouterFinishes)
       => (k \in expiry /\ k \notin expiry')]_vars


\* C25: producer.send is called only while connected is set and encode only
\* with a schema id fetched since the last disconnect; a publish that
\* starts when the producer has been disconnected connects first; and a
\* connect attempt that fails does not set connected
C25_LazyConnect ==
  /\ [][\A p \in Pubs :
          (producer.pubPc[p] = "encode" /\ producer.pubPc'[p] = "send")
          => producer.connected]_vars
  /\ [][\A p \in Pubs :
          (producer.pubPc[p] # "encode" /\ producer.pubPc'[p] = "encode")
          => producer.schemaFresh']_vars
  /\ [][\A p \in Pubs :
          (/\ producer.pubPc[p] = "idle"
           /\ producer.pubPc'[p] # "idle"
           /\ ~producer.brokerConn)
          => producer.pubPc'[p] = "connect"]_vars
  /\ [][\A p \in Pubs :
          (/\ producer.pubPc[p] \in {"connect", "fetch"}
           /\ producer.pubPc'[p] = "failed")
          => producer.connected' = producer.connected]_vars

\* C29: of the publishes issued while the producer is not connected, at
\* most one is connecting the producer and fetching the schema id, and no
\* publish hands encode a schema id that was not fetched
C29_ConnectOnce ==
  /\ Cardinality({p \in Pubs :
                    producer.pubPc[p] \in {"connect", "fetch"}}) <= 1
  /\ \A p \in Pubs : producer.pubPc[p] \in {"encode", "send", "done"}
                        => producer.pubSchema[p] = LatestSchemaId


\* C26: the loop of the consumer starts only from a consumer that is
\* connected and subscribed, and once a disconnect() call has returned
\* (and start() was not called again) no loop runs and no eachMessage is in
\* flight
C26_ConsumerLifecycle ==
  /\ [][(/\ lifecycle.groupState # "consuming"
          /\ lifecycle.groupState' = "consuming")
          => (lifecycle.groupState = "subscribed" /\ lifecycle.running)]_vars
  /\ [](lifecycle.disconnectReturned
          => (~lifecycle.callbackActive
              /\ lifecycle.groupState # "consuming"))


\* C30: after a termination signal no component is closed more than once,
\* the pool is closed only once the consumer is disconnected, and the
\* process exits with code 0 having closed every component
C30_CleanShutdown ==
  /\ \A c \in Components : shutdown.closeCalls[c] <= 1
  /\ shutdown.closeCalls["pool"] > 0 => ~lifecycle.running
  /\ shutdown.exitCode # None
       => /\ shutdown.exitCode = "0"
          /\ \A c \in Components \ {"ws"} : shutdown.closeCalls[c] = 1
          /\ wsAttached => shutdown.closeCalls["ws"] = 1

====
